---------------------------- MODULE Spec2Model ----------------------------
(***************************************************************************)
(* Modular arithmetic over the prime field of rust/src/procon/finite.rs:   *)
(* pow (binary exponentiation), inv_dp (table of inverses) and the Finite  *)
(* value type with its operators.                                          *)
(*                                                                         *)
(* Every i64 of the program is modelled as an exact integer in             *)
(* sign-magnitude form, [neg |-> BOOLEAN, mag |-> limbs], the magnitude a  *)
(* little-endian sequence of limbs in base 2^15 without leading zero       *)
(* limbs.  Arithmetic on them is exact, so a product that would leave the  *)
(* 64-bit range is visible as such; the 64-bit width enters through Fits64 *)
(* (an operation whose exact result does not fit aborts, as the checked    *)
(* arithmetic of a debug build does).                                      *)
(***************************************************************************)
EXTENDS Integers, Sequences, FiniteSets, TLC

\* const P: i64 = 1_000_000_007
P == 1000000007

-----------------------------------------------------------------------------
(* Exact integers: magnitudes.                                             *)

Base == 2^15

RECURSIVE Trim(_)
Trim(m) ==
    IF m = <<>> THEN <<>>
    ELSE IF m[Len(m)] = 0 THEN Trim(SubSeq(m, 1, Len(m) - 1))
    ELSE m

RECURSIVE MagOfNat(_)
MagOfNat(k) == IF k = 0 THEN <<>> ELSE <<k % Base>> \o MagOfNat(k \div Base)

\* Defined for magnitudes below 2^31 only.
RECURSIVE NatOfMag(_)
NatOfMag(m) == IF m = <<>> THEN 0 ELSE Head(m) + Base * NatOfMag(Tail(m))

MagIsSmall(m) == Len(m) <= 2 \/ (Len(m) = 3 /\ m[3] <= 1)

RECURSIVE MagLtFrom(_, _, _)
MagLtFrom(a, b, k) ==
    IF k = 0 THEN FALSE
    ELSE IF a[k] # b[k] THEN a[k] < b[k]
    ELSE MagLtFrom(a, b, k - 1)

MagLt(a, b) ==
    IF Len(a) # Len(b) THEN Len(a) < Len(b) ELSE MagLtFrom(a, b, Len(a))

MagMax(a, b) == IF MagLt(a, b) THEN b ELSE a

RECURSIVE MagAddC(_, _, _)
MagAddC(a, b, c) ==
    IF a = <<>> /\ b = <<>> THEN (IF c = 0 THEN <<>> ELSE <<c>>)
    ELSE LET s == (IF a = <<>> THEN 0 ELSE Head(a))
                  + (IF b = <<>> THEN 0 ELSE Head(b)) + c
         IN  <<s % Base>> \o MagAddC(IF a = <<>> THEN <<>> ELSE Tail(a),
                                     IF b = <<>> THEN <<>> ELSE Tail(b),
                                     s \div Base)

MagAdd(a, b) == MagAddC(a, b, 0)

\* a - b for a >= b.
RECURSIVE MagSubC(_, _, _)
MagSubC(a, b, c) ==
    IF a = <<>> THEN <<>>
    ELSE LET s == Head(a) - (IF b = <<>> THEN 0 ELSE Head(b)) - c
         IN  <<s % Base>> \o MagSubC(Tail(a),
                                     IF b = <<>> THEN <<>> ELSE Tail(b),
                                     IF s < 0 THEN 1 ELSE 0)

MagSub(a, b) == Trim(MagSubC(a, b, 0))

RECURSIVE MagMulLimb(_, _, _)
MagMulLimb(a, d, c) ==
    IF a = <<>> THEN (IF c = 0 THEN <<>> ELSE <<c>>)
    ELSE LET s == Head(a) * d + c
         IN  <<s % Base>> \o MagMulLimb(Tail(a), d, s \div Base)

RECURSIVE MagMulRaw(_, _)
MagMulRaw(a, b) ==
    IF b = <<>> THEN <<>>
    ELSE MagAdd(MagMulLimb(a, Head(b), 0), <<0>> \o MagMulRaw(a, Tail(b)))

MagMul(a, b) == Trim(MagMulRaw(a, b))

\* (r * 2^k) mod d for r < d <= 2^30, by k doublings.
RECURSIVE ShlMod(_, _, _)
ShlMod(r, k, d) == IF k = 0 THEN r ELSE (2 * ShlMod(r, k - 1, d)) % d

\* m mod d for 0 < d <= 2^30, most significant limb first.
RECURSIVE MagRem(_, _)
MagRem(m, d) ==
    IF m = <<>> THEN 0
    ELSE LET r == MagRem(Tail(m), d)
         IN  IF r = 0 THEN Head(m) % d
             ELSE (ShlMod(r, 15, d) + (Head(m) % d)) % d

\* m div d and m mod d for 0 < d <= 2^15.
RECURSIVE MagDivLimb(_, _)
MagDivLimb(m, d) ==
    IF m = <<>> THEN [q |-> <<>>, r |-> 0]
    ELSE LET t   == MagDivLimb(Tail(m), d)
             cur == t.r * Base + Head(m)
         IN  [q |-> <<cur \div d>> \o t.q, r |-> cur % d]

-----------------------------------------------------------------------------
(* Exact integers: signed values and the i64 operators on them.            *)

Mk(neg, mag) == [neg |-> neg /\ mag # <<>>, mag |-> mag]

\* The integer k, |k| < 2^31.
I(k) == IF k < 0 THEN Mk(TRUE, MagOfNat(0 - k)) ELSE Mk(FALSE, MagOfNat(k))

\* Defined for |a| < 2^31 only.
ToInt(a) == IF a.neg THEN 0 - NatOfMag(a.mag) ELSE NatOfMag(a.mag)

IsSmall(a) == MagIsSmall(a.mag)

Neg(a) == Mk(~a.neg, a.mag)

Add(a, b) ==
    IF a.neg = b.neg THEN Mk(a.neg, MagAdd(a.mag, b.mag))
    ELSE IF MagLt(a.mag, b.mag) THEN Mk(b.neg, MagSub(b.mag, a.mag))
    ELSE Mk(a.neg, MagSub(a.mag, b.mag))

Sub(a, b) == Add(a, Neg(b))

Mul(a, b) == Mk(a.neg # b.neg, MagMul(a.mag, b.mag))

\* a % d of Rust (the remainder takes the sign of a), for 0 < d <= 2^30.
Rem(a, d) == Mk(a.neg, MagOfNat(MagRem(a.mag, d)))

\* a / d of Rust (the quotient is truncated), for 0 < d <= 2^15.
Div(a, d) == Mk(a.neg, Trim(MagDivLimb(a.mag, d).q))

Lt(a, b) ==
    IF a.neg # b.neg THEN a.neg
    ELSE IF a.neg THEN MagLt(b.mag, a.mag) ELSE MagLt(a.mag, b.mag)

Zero == I(0)
One == I(1)
PW == I(P)

\* 2^63 as a magnitude; i64::MAX and i64::MIN.
Two63 == <<0, 0, 0, 0, 8>>
I64Max == Mk(FALSE, MagSub(Two63, <<1>>))
I64Min == Mk(TRUE, Two63)

Fits64(a) == MagLt(a.mag, Two63) \/ (a.neg /\ a.mag = Two63)

-----------------------------------------------------------------------------
(* pow: binary exponentiation.                                             *)
(* The state of a call is [x, y, n, peak, ok]: the three locals, the       *)
(* largest magnitude of an exact intermediate result so far, and whether   *)
(* every one of them fitted in 64 bits.                                    *)

\* An exact result w was computed in state s.
Note(s, w) ==
    [x |-> s.x, y |-> s.y, n |-> s.n,
     peak |-> MagMax(w.mag, s.peak), ok |-> s.ok /\ Fits64(w)]

\* Mutant: the base is not reduced on entry.
PowEnterNoRem(x, n) ==
    [x |-> x, y |-> One, n |-> n, peak |-> <<>>, ok |-> TRUE]

\* let (mut x, mut y, mut n) = (x % P, 1_i64, n);
PowEnter(x, n) ==
    [x |-> Rem(x, P), y |-> One, n |-> n, peak |-> <<>>, ok |-> TRUE]

\* Mutant: while n > 1
PowGuardOffByOne(s) == Lt(One, s.n)

\* while n > 0
PowGuard(s) == Lt(Zero, s.n)

\* y = (y * x) % P;
PowMulY(s, yx) == [Note(s, yx) EXCEPT !.y = Rem(yx, P)]

\* n -= 1;
PowDecN(s, n1) == [Note(s, n1) EXCEPT !.n = n1]

\* if n % 2 != 0 { y = (y * x) % P; n -= 1; }
PowOdd(s) == PowDecN(PowMulY(s, Mul(s.y, s.x)), Sub(s.n, One))

\* Mutant: if n % 2 == 0
PowIfInverted(s) == IF Rem(s.n, 2) = Zero THEN PowOdd(s) ELSE s

PowIf(s) == IF Rem(s.n, 2) # Zero THEN PowOdd(s) ELSE s

\* Mutant: x = x * x;
PowSquareNoRem(s, xx) == [Note(s, xx) EXCEPT !.x = xx]

\* x = (x * x) % P;
PowSquare(s, xx) == [Note(s, xx) EXCEPT !.x = Rem(xx, P)]

\* Mutant: n is not halved.
PowHalveSkip(s) == s

\* n /= 2;
PowHalve(s) == [s EXCEPT !.n = Div(s.n, 2)]

\* One run of the loop body.
PowBody(s) == PowHalve(PowSquare(PowIf(s), Mul(s.x, s.x)))

\* The loop run to its end, or to the first result that does not fit.
RECURSIVE PowLoop(_)
PowLoop(s) == IF ~s.ok \/ ~PowGuard(s) THEN s ELSE PowLoop(PowBody(s))

\* pow(x, n): the final state of the call; y is the value returned.
pow(x, n) == PowLoop(PowEnter(x, n))

-----------------------------------------------------------------------------
(* inv_dp: the table of inverses.                                          *)

\* The cells of dp the model keeps: those up to MaxIdx and those from P on.
\* The run of the loop for a cell i reads the cell P % i only, which is
\* below i when i < P, is 0 when i = P and is P when i > P: no kept cell
\* depends on a cell that is not kept.
MaxIdx == 40

Kept(k) == k <= MaxIdx \/ k >= P

Cells(size) == {k \in 0..MaxIdx : k < size} \cup {k \in P..(P + 1) : k < size}

\* let mut dp = vec![0; n]; if n >= 2 { dp[1] = 1; ... }
InvEnter(size) ==
    [k \in Cells(size) |-> IF size >= 2 /\ k = 1 THEN One ELSE Zero]

\* z %= P; dp[i] = z;  after the exact results z0 and z2
InvStore(z0, z2) ==
    [z |-> Rem(z2, P), peak |-> MagMax(z0.mag, z2.mag),
     ok |-> Fits64(z0) /\ Fits64(z2)]

\* z %= P; z *= P / i as i64;
InvTimes(z0, q) == InvStore(z0, Mul(Rem(z0, P), q))

\* Mutant: let mut z = dp[(P % i as i64) as usize];
InvBodyNoNegate(tab, k) == InvTimes(tab[P % k], I(P \div k))

\* One run of the loop body for index k: the value z stored in dp[k].
\* let mut z = P - dp[(P % i as i64) as usize];
InvBody(tab, k) == InvTimes(Sub(PW, tab[P % k]), I(P \div k))

-----------------------------------------------------------------------------
(* Finite: the value type and its operators.  A Finite is modelled by the  *)
(* i64 it wraps.  Each operator yields [val, peak, ok]: the Finite         *)
(* returned, the largest magnitude of an exact intermediate result, and    *)
(* whether all of them fitted in 64 bits.                                  *)

\* r was computed, then q.
Then(r, q) ==
    [val |-> q.val, peak |-> MagMax(r.peak, q.peak), ok |-> r.ok /\ q.ok]

\* The exact result w, computed on the way to r.
Wide(w) == [val |-> w, peak |-> w.mag, ok |-> Fits64(w)]

\* (b) % P, where b is value % P + P
FromSum(b) == [val |-> Rem(b, P), peak |-> b.mag, ok |-> Fits64(b)]

\* Mutant: Finite(value % P)
FromOnePass(value) == FromSum(Rem(value, P))

\* Finite((value % P + P) % P)
from(value) == FromSum(Add(Rem(value, P), PW))

\* Finite::from(w) for an exact result w
FromWide(w) == Then(Wide(w), from(w))

\* Mutants: the macro instantiated with the wrong method.
AddAsSub(self, other) == FromWide(Sub(self, other))
MulAsAdd(self, other) == FromWide(Add(self, other))

\* Finite::from((self.0).add(other.0)), and likewise sub and mul
add(self, other) == FromWide(Add(self, other))

sub(self, other) == FromWide(Sub(self, other))

mul(self, other) == FromWide(Mul(self, other))

\* .into() on the state s in which pow returned
Into(s) ==
    IF s.ok THEN Then([val |-> s.y, peak |-> s.peak, ok |-> TRUE], from(s.y))
    ELSE [val |-> s.y, peak |-> s.peak, ok |-> FALSE]

\* pow(self.0, e).into()
finite_pow(self, e) == Into(pow(self, e))

\* self * r, for the outcome r of other.pow(P - 2)
MulBy(self, r) == IF r.ok THEN Then(r, mul(self, r.val)) ELSE r

\* Mutant: self * other.pow(P - 1)
DivWrongExponent(self, other) == MulBy(self, finite_pow(other, I(P - 1)))

\* self * other.pow(P - 2)
div(self, other) == MulBy(self, finite_pow(other, I(P - 2)))

Ops == {"add", "sub", "mul", "div"}

\* self.$op(other) with a Finite at the right
apply(op, self, other) ==
    CASE op = "add" -> add(self, other)
      [] op = "sub" -> sub(self, other)
      [] op = "mul" -> mul(self, other)
      [] op = "div" -> div(self, other)

\* self.$op(f), for the outcome f of Finite::from(other)
ApplyTo(op, self, f) == IF f.ok THEN Then(f, apply(op, self, f.val)) ELSE f

\* self.$op(Finite::from(other)) with an i64 at the right
apply_i64(op, self, other) == ApplyTo(op, self, from(other))

-----------------------------------------------------------------------------
(* The program: one call of pow, one call of inv_dp, or a sequence of      *)
(* operations on Finite values, chosen by the initial state.               *)

VARIABLES
    pc,      \* where the program is
    x0, n0,  \* pow: the arguments
    x, y, n, \* pow: the locals
    iters,   \* pow: the runs of the loop body so far
    size,    \* inv_dp: the argument n
    i,       \* inv_dp: the loop index
    dp,      \* inv_dp: the kept cells of the table
    acc,     \* Finite: a mutable binding (let mut x)
    res,     \* Finite: the value of the last operator expression
    src,     \* Finite: the i64 acc was made from, while acc is from(src.v)
    last,    \* Finite: the last operator applied: its operands (lhs made from
             \* lsrc, rhs made from the i64 raw) and its result out
    steps,   \* Finite: the operations so far
    peak     \* the largest magnitude of an exact intermediate result so far

vars == <<pc, x0, n0, x, y, n, iters, size, i, dp, acc, res, src, last, steps, peak>>

powVars == <<x0, n0, x, y, n, iters>>
invVars == <<size, i, dp>>
finVars == <<acc, res, src, last, steps>>

\* The inputs.
MaxBase == 99
MaxExp == 99
MaxOps == 2

PowBases ==
    {I(k) : k \in 0..MaxBase}
        \cup {I(0 - 1), I(0 - 2), I(P - 1), I(P), I(P + 2), I(0 - P - 1), I64Max, I64Min}

PowExps == {I(k) : k \in 0..MaxExp} \cup {I(0 - 3), I(P - 2), I64Max}

InvSizes == 0..(MaxIdx + 1) \cup {P + 1, P + 2}

FinInputs == {I(2), I(0 - 7), I(P + 2), I64Max}

FinOperands == {I(P), I(0 - 1), I64Min}

NoSrc == [known |-> FALSE, v |-> Zero]

NoOp ==
    [op |-> "none", i64 |-> FALSE, lhs |-> Zero, lsrc |-> NoSrc, rhs |-> Zero,
     raw |-> Zero, out |-> Zero]

PowIdle ==
    /\ x0 = Zero /\ n0 = Zero /\ x = Zero /\ y = Zero /\ n = Zero /\ iters = 0

InvIdle == size = 0 /\ i = 0 /\ dp = <<>>

\* #[derive(Default)]: Finite(0)
FinIdle ==
    /\ acc = Zero /\ res = Zero /\ steps = 0 /\ src = NoSrc /\ last = NoOp

Init ==
    /\ peak = <<>>
    /\ \/ /\ pc = "pow"
          /\ x0 \in PowBases /\ n0 \in PowExps
          /\ x = Zero /\ y = Zero /\ n = Zero /\ iters = 0
          /\ InvIdle /\ FinIdle
       \/ /\ pc = "inv_dp"
          /\ size \in InvSizes /\ i = 0 /\ dp = <<>>
          /\ PowIdle /\ FinIdle
       \/ /\ pc = "finite"
          /\ PowIdle /\ InvIdle /\ FinIdle

(* pow *)

\* The locals and peak become those of s; the call stops where a result did
\* not fit.
PowCommit(s, next) ==
    /\ x' = s.x /\ y' = s.y /\ n' = s.n
    /\ peak' = s.peak
    /\ pc' = IF s.ok THEN next ELSE "panic"

PowNow == [x |-> x, y |-> y, n |-> n, peak |-> peak, ok |-> TRUE]

PowCall ==
    /\ pc = "pow"
    /\ \E s \in {PowEnter(x0, n0)} : PowCommit(s, "pow_loop")
    /\ UNCHANGED <<x0, n0, iters, invVars, finVars>>

PowIter ==
    /\ pc = "pow_loop"
    /\ PowGuard(PowNow)
    /\ \E s \in {PowBody(PowNow)} : PowCommit(s, "pow_loop")
    /\ iters' = iters + 1
    /\ UNCHANGED <<x0, n0, invVars, finVars>>

PowReturn ==
    /\ pc = "pow_loop"
    /\ ~PowGuard(PowNow)
    /\ pc' = "pow_done"
    /\ UNCHANGED <<powVars, invVars, finVars, peak>>

(* inv_dp *)

InvCall ==
    /\ pc = "inv_dp"
    /\ dp' = InvEnter(size)
    /\ i' = 2
    /\ pc' = IF size >= 2 THEN "inv_loop" ELSE "inv_done"
    /\ UNCHANGED <<size, powVars, finVars, peak>>

\* dp[i] = z; and on to the next index
InvCommit(t) ==
    /\ dp' = [dp EXCEPT ![i] = t.z]
    /\ i' = i + 1
    /\ peak' = MagMax(t.peak, peak)
    /\ pc' = IF t.ok THEN pc ELSE "panic"

InvIter ==
    /\ pc = "inv_loop"
    /\ i < size
    /\ Kept(i)
    /\ InvCommit(InvBody(dp, i))
    /\ UNCHANGED <<size, powVars, finVars>>

\* The runs of the loop from i up to P - 1, none of which reads or writes a
\* kept cell.
InvSkip ==
    /\ pc = "inv_loop"
    /\ i < size
    /\ ~Kept(i)
    /\ i' = P
    /\ UNCHANGED <<pc, size, dp, powVars, finVars, peak>>

InvReturn ==
    /\ pc = "inv_loop"
    /\ ~(i < size)
    /\ pc' = "inv_done"
    /\ UNCHANGED <<invVars, powVars, finVars, peak>>

(* Finite *)

\* The outcome r of an operation: the program goes on, or stops where an
\* intermediate result did not fit.
Outcome(r) ==
    /\ peak' = MagMax(r.peak, peak)
    /\ pc' = IF r.ok THEN pc ELSE "panic"

Applied(op, w, b, r, i64) ==
    /\ Outcome(r)
    /\ last' = [op |-> op, i64 |-> i64, lhs |-> acc, lsrc |-> src, rhs |-> b,
                raw |-> w, out |-> r.val]
    /\ steps' = steps + 1

\* let mut x = Finite::from(v)
FromI64 ==
    /\ pc = "finite"
    /\ steps < MaxOps
    /\ \E v \in FinInputs : \E r \in {from(v)} :
          /\ Outcome(r)
          /\ acc' = r.val
          /\ src' = [known |-> TRUE, v |-> v]
    /\ last' = NoOp
    /\ steps' = steps + 1
    /\ UNCHANGED <<res, powVars, invVars>>

\* x $op Finite::from(w)
OpFinite ==
    /\ pc = "finite"
    /\ steps < MaxOps
    /\ \E op \in Ops, w \in FinOperands : \E b \in {from(w).val} :
          \E r \in {apply(op, acc, b)} :
             /\ Applied(op, w, b, r, FALSE)
             /\ res' = r.val
    /\ UNCHANGED <<acc, src, powVars, invVars>>

\* x $op w
OpI64 ==
    /\ pc = "finite"
    /\ steps < MaxOps
    /\ \E op \in Ops, w \in FinOperands : \E b \in {from(w).val} :
          \E r \in {apply_i64(op, acc, w)} :
             /\ Applied(op, w, b, r, TRUE)
             /\ res' = r.val
    /\ UNCHANGED <<acc, src, powVars, invVars>>

\* x $op= Finite::from(w)
OpAssignFinite ==
    /\ pc = "finite"
    /\ steps < MaxOps
    /\ \E op \in Ops, w \in FinOperands : \E b \in {from(w).val} :
          \E r \in {apply(op, acc, b)} :
             /\ Applied(op, w, b, r, FALSE)
             /\ acc' = r.val
    /\ src' = NoSrc
    /\ UNCHANGED <<res, powVars, invVars>>

\* x $op= w
OpAssignI64 ==
    /\ pc = "finite"
    /\ steps < MaxOps
    /\ \E op \in Ops, w \in FinOperands : \E b \in {from(w).val} :
          \E r \in {apply_i64(op, acc, w)} :
             /\ Applied(op, w, b, r, TRUE)
             /\ acc' = r.val
    /\ src' = NoSrc
    /\ UNCHANGED <<res, powVars, invVars>>

Next ==
    \/ PowCall \/ PowIter \/ PowReturn
    \/ InvCall \/ InvIter \/ InvSkip \/ InvReturn
    \/ FromI64 \/ OpFinite \/ OpI64 \/ OpAssignFinite \/ OpAssignI64

Spec == Init /\ [][Next]_vars

\* A step of a call of pow in progress: control moves on, or one more run of
\* the loop body is counted.  The steps of PowCall, PowIter and PowReturn
\* are the steps of Next that do so and change pc or iters.
PowStep ==
    /\ pc \in {"pow", "pow_loop"}
    /\ pc' \in {"pow_loop", "pow_done", "panic"}
    /\ iters' \in {iters, iters + 1}

\* The program is sequential: a call in progress takes its next step.
FairSpec == Spec /\ WF_<<pc, iters>>(PowStep)

-----------------------------------------------------------------------------
(* Reference arithmetic on plain integers, independent of the operators    *)
(* above: (a * b) mod P by doubling, and b^e mod P by e multiplications.   *)

RECURSIVE MulModRef(_, _)
MulModRef(a, b) ==
    IF a = 0 \/ b = 0 THEN 0
    ELSE (((2 * MulModRef(a, b \div 2)) % P) + ((b % 2) * a)) % P

\* h times b, mod P.
TimesBase(h, b) == IF h = 0 THEN 0 ELSE MulModRef(h, b % P)

\* h times b, eight times over.
Times8(h, b) ==
    IF h = 0 THEN 0
    ELSE TimesBase(TimesBase(TimesBase(TimesBase(
         TimesBase(TimesBase(TimesBase(TimesBase(h, b), b), b), b),
         b), b), b), b)

\* Start from 1 and multiply by b, e times, reducing mod P each time.
RECURSIVE RefPow(_, _)
RefPow(b, e) ==
    IF e = 0 THEN 1
    ELSE IF e % 8 = 0 THEN Times8(RefPow(b, e - 8), b)
    ELSE TimesBase(RefPow(b, e - 1), b)

\* a in [0, P);  |a| < P
InRange(a) == ~a.neg /\ MagLt(a.mag, PW.mag)
AbsBelowP(a) == MagLt(a.mag, PW.mag)

NonNeg(a) == ~a.neg

\* a in [0, 100)
Below100(a) == ~a.neg /\ MagLt(a.mag, <<100>>)

\* floor(log2(a)) + 1 for a >= 1, and 0 for a = 0
RECURSIVE BitsOf(_)
BitsOf(k) == IF k = 0 THEN 0 ELSE 1 + BitsOf(k \div 2)
BitLen(a) ==
    IF a.mag = <<>> THEN 0
    ELSE 15 * (Len(a.mag) - 1) + BitsOf(a.mag[Len(a.mag)])

InPow == pc \in {"pow_loop", "pow_done"}

\* The residue of a in [0, P), as a plain integer.
Residue(a) ==
    IF a.neg /\ MagRem(a.mag, P) # 0 THEN P - MagRem(a.mag, P)
    ELSE MagRem(a.mag, P)

\* e is an exponent below 2^15.
Countable(e) == ~e.neg /\ Len(e.mag) <= 1

\* b^e mod P by the laws b^(2k) = (b^k)^2 and b^(2k+1) = b * (b^k)^2, h
\* being b^k.
Square(h) == MulModRef(h, h)

FromHalf(h, odd, b) ==
    IF h = 0 THEN 0
    ELSE IF odd THEN MulModRef(b % P, Square(h))
    ELSE Square(h)

RECURSIVE ModPow(_, _)
ModPow(b, e) ==
    IF e = 0 THEN 1 ELSE FromHalf(ModPow(b, e \div 2), e % 2 = 1, b)

-----------------------------------------------------------------------------
(* The claims.                                                             *)

\* C1: for x and n in [0, 100), pow(x, n) is the value obtained from 1 by n
\* multiplications by x, each reduced mod P; and pow(x, 0) = 1 for every x,
\* x = 0 included.
PowMatchesFold ==
    pc = "pow_done" =>
        /\ (Below100(x0) /\ Below100(n0)) => y = I(RefPow(ToInt(x0), ToInt(n0)))
        /\ n0 = Zero => y = One

PowMatchesFoldWitness ==
    /\ pc = "pow_done" /\ x0 = I(7) /\ n0 = I(MaxExp) /\ iters > 1

FiniteInRange ==
    /\ InRange(acc) /\ InRange(res)
    /\ InRange(last.lhs) /\ InRange(last.rhs) /\ InRange(last.out)

FiniteInRangeWitness ==
    /\ last.op = "sub" /\ last.i64 /\ last.raw = I64Min
    /\ Lt(last.lhs, last.rhs) /\ acc = last.out /\ acc # Zero

\* C4: (a / b) * b = a for every Finite a and every Finite b with a nonzero
\* residue.
DivThenMul ==
    (last.op = "div" /\ last.rhs # Zero) =>
        /\ pc = "finite"
        /\ mul(last.out, last.rhs).val = last.lhs

DivThenMulWitness ==
    /\ last.op = "div" /\ last.rhs # Zero /\ last.rhs # One
    /\ last.lhs # Zero /\ last.out # last.lhs

\* C5: Finite::from(v) + Finite::from(w) = Finite::from(v + w), v + w being
\* the exact sum of the integers v and w.
FromAddHomomorphism ==
    (last.op = "add" /\ last.lsrc.known) =>
        last.out = from(Add(last.lsrc.v, last.raw)).val

FromAddWitness ==
    /\ last.op = "add" /\ ~last.i64 /\ last.lsrc.known
    /\ last.lsrc.v = I(0 - 7) /\ last.raw = I(0 - 1) /\ last.out = I(P - 8)

\* C6: dividing by a right operand with residue zero stops nowhere and gives
\* the Finite 0, as pow(0, P - 2) = 0.
DivByZeroResidue ==
    (last.op = "div" /\ last.rhs = Zero) =>
        /\ pc = "finite"
        /\ last.out = Zero
        /\ pow(Zero, I(P - 2)).y = Zero

DivByZeroWitness ==
    /\ last.op = "div" /\ last.i64 /\ last.raw = I(P) /\ last.rhs = Zero
    /\ last.lhs # Zero

\* C7, as claimed: for every x and every n >= 0, the base of the loop and
\* the value returned lie in [0, P).
PowBaseInRange ==
    NonNeg(n0) =>
        /\ pc = "pow_loop" => InRange(x)
        /\ pc = "pow_done" => InRange(y)

\* C7, amended: for every x and every n >= 0, the base of the loop and the
\* value returned lie in (-P, P), and in [0, P) when x >= 0.
PowBaseAbsBelowP ==
    NonNeg(n0) =>
        /\ pc = "pow_loop" => AbsBelowP(x) /\ (NonNeg(x0) => InRange(x))
        /\ pc = "pow_done" => AbsBelowP(y) /\ (NonNeg(x0) => InRange(y))

PowBaseWitness ==
    /\ pc = "pow_done" /\ x0 = I64Min /\ n0 = I(1) /\ y.neg

\* C8: at the head of every iteration and at the exit of the loop,
\* y * x^n = x0^n0 (mod P), for x0 in [0, P) and n0 >= 0.
PowLoopInvariant ==
    (pc = "pow_loop" /\ InRange(x0) /\ Countable(n0)) =>
        MulModRef(Residue(y), ModPow(Residue(x), ToInt(n)))
            = ModPow(ToInt(x0), ToInt(n0))

PowLoopInvariantWitness ==
    /\ pc = "pow_loop" /\ x0 = I(P - 1) /\ n0 = I(MaxExp)
    /\ iters = 2 /\ n # Zero

\* C9: no sum, difference or product computed by pow, inv_dp or a Finite
\* operation reaches 2^63 in absolute value, and no call stops on one.
NoOverflow == MagLt(peak, Two63) /\ pc # "panic"

NoOverflowWitness ==
    /\ last.op = "div" /\ last.raw = I64Min /\ last.lhs = I(P - 1)
    /\ Len(peak) = 4

\* The loop body has run at most floor(log2(n0)) + 1 times, and never for
\* n0 = 0: the bit length of n0 is 0 for n0 = 0.
PowIterBound ==
    (InPow /\ NonNeg(n0)) => iters <= BitLen(n0)

\* A run of the loop body makes n smaller.
PowDecreases ==
    (pc = "pow_loop" /\ pc' = "pow_loop" /\ iters' # iters) => Lt(n', n)

\* C10: the loop of pow ends; each run of its body makes n smaller; the body
\* runs at most floor(log2(n)) + 1 times for n >= 1 and never for n = 0.
PowTerminates ==
    /\ []PowIterBound
    /\ [][PowDecreases]_vars
    /\ (pc = "pow_loop" /\ NonNeg(n0)) ~> (pc = "pow_done")

PowTerminatesWitness ==
    /\ pc = "pow_done" /\ n0 = I64Max /\ iters = 63

=============================================================================
